---------------------------- MODULE Spec2Model ----------------------------
(***************************************************************************)
(* Model of scripts_locais/T1_v1.py: the bit-packing text compressor, the  *)
(* Shannon entropy and redundancy calculators, the metrics pipeline         *)
(* (executar_teste), the PostgreSQL sink (gravar_resultados_bd) and the     *)
(* terminal sink (mostrar_resultados_terminal), as orchestrated by main.    *)
(*                                                                          *)
(* A text is a sequence of code points, a byte string a sequence of         *)
(* 0..255, a bit string a sequence of 0/1.  Python floats are modelled in   *)
(* fixed point: a float x is the integer floor(x * Escala).                 *)
(***************************************************************************)
EXTENDS Integers, Sequences, FiniteSets, TLC

(***************************************************************************)
(* Bounds of the model.                                                     *)
(***************************************************************************)
\* longest text drawn as input of bit_packing_texto
MaxLen == 5
\* number of fractional bits of the fixed-point model of a float
FracBits == 12

\* the code points texts are drawn from: ASCII letters and one two-byte
\* UTF-8 character (U+00E9)
Alfabeto == {97, 98, 99, 122, 233}

Escala == 2 ^ FracBits

Textos == UNION {[1..n -> Alfabeto] : n \in 0..MaxLen}

\* longest byte string drawn exhaustively as input of calcular_entropia
MaxBytes == 4
\* how far a byte string over k values may exceed k bytes
MaxExcesso == 2

\* the byte values the short byte strings are drawn from
ByteAmostra == {0, 1, 255}

\* the byte string 0, 1, ..., k-1, 0, 1, ... of length n
Rampa(n, k) == [i \in 1..n |-> (i - 1) % k]

\* the inputs of calcular_entropia: every short byte string, and byte
\* strings over k values, k up to all 256, in uniform and near-uniform
\* frequency
ByteStrings ==
    UNION {[1..n -> ByteAmostra] : n \in 0..MaxBytes}
      \cup {Rampa(n, k) : n \in 1..(256 + MaxExcesso), k \in {2, 3, 16, 255, 256}}
      \cup {Rampa(2 * k, k) : k \in {255, 256}}

(***************************************************************************)
(* Python helpers used by bit_packing_texto.                                *)
(***************************************************************************)
Max(a, b) == IF a >= b THEN a ELSE b

RECURSIVE FloorLog2(_)
\* a faulty bit width: math.floor(math.log2(n)) in place of math.ceil
FloorLog2(n) == IF n < 2 THEN 0 ELSE 1 + FloorLog2(n \div 2)

RECURSIVE CeilLog2From(_, _)
CeilLog2From(n, k) == IF 2 ^ k >= n THEN k ELSE CeilLog2From(n, k + 1)

\* math.ceil(math.log2(n)) for an integer n >= 1
CeilLog2(n) ==
    CeilLog2From(n, 0)

\* set(texto)
CharSet(texto) == {texto[i] : i \in 1..Len(texto)}

RECURSIVE Sorted(_)
\* sorted(S): the elements of S in ascending order
Sorted(S) ==
    IF S = {} THEN <<>>
    ELSE LET m == CHOOSE x \in S : \A y \in S : x <= y
         IN  <<m>> \o Sorted(S \ {m})

RECURSIVE Bin(_)
\* format(i, "b"): the binary digits of i >= 0, most significant first
Bin(i) == IF i < 2 THEN <<i>> ELSE Bin(i \div 2) \o <<i % 2>>

RECURSIVE Zeros(_)
\* "0" * n
Zeros(n) == IF n <= 0 THEN <<>> ELSE <<0>> \o Zeros(n - 1)

\* format(i, f"0{w}b"): the binary digits of i, zero-filled on the left to
\* a width of at least w
FormatBin(i, w) == Zeros(w - Len(Bin(i))) \o Bin(i)

RECURSIVE IntBase2LSB(_)
\* a faulty int(s, 2): the first bit taken as the least significant
IntBase2LSB(s) ==
    IF Len(s) = 0 THEN 0 ELSE Head(s) + 2 * IntBase2LSB(Tail(s))

RECURSIVE IntBase2(_)
\* int(s, 2) of a non-empty bit string
IntBase2(s) ==
    IF Len(s) = 0 THEN 0
    ELSE 2 * IntBase2(SubSeq(s, 1, Len(s) - 1)) + s[Len(s)]

RECURSIVE JoinCodes(_, _)
\* "".join(tabela[c] for c in texto)
JoinCodes(tabela, texto) ==
    IF Len(texto) = 0 THEN <<>>
    ELSE tabela[Head(texto)] \o JoinCodes(tabela, Tail(texto))

\* bytes(int(bits[i:i+8], 2) for i in range(0, len(bits), 8))
PackBytes(bits) ==
    [k \in 1..((Len(bits) + 7) \div 8) |->
        IntBase2(SubSeq(bits, 8 * (k - 1) + 1,
                        IF 8 * k <= Len(bits) THEN 8 * k ELSE Len(bits)))]

\* the code table: {c: format(i, f"0{bits_por_char}b")
\*                  for i, c in enumerate(caracteres)}
Tabela(caracteres, bits_por_char) ==
    [c \in {caracteres[j] : j \in 1..Len(caracteres)} |->
        FormatBin((CHOOSE j \in 1..Len(caracteres) : caracteres[j] = c) - 1,
                  bits_por_char)]

\* a faulty padding: the outer % 8 left out, so an aligned bit string gets
\* a whole byte of padding
PaddingSemModulo(bits) == 8 - (Len(bits) % 8)

\* padding = (8 - len(bits) % 8) % 8
Padding(bits) == (8 - (Len(bits) % 8)) % 8

\* the result (dados_comprimidos, metadados) of bit_packing_texto(texto)
bit_packing_texto(texto) ==
    IF Len(texto) = 0
    THEN [dados |-> <<>>,
          meta  |-> [tabela |-> <<>>, bits_por_char |-> 0, padding |-> 0]]
    ELSE LET caracteres    == Sorted(CharSet(texto))
             n_chars       == Len(caracteres)
             bits_por_char == Max(1, CeilLog2(n_chars))
             tabela        == Tabela(caracteres, bits_por_char)
             bits          == JoinCodes(tabela, texto)
             padding       == Padding(bits)
         IN  [dados |-> PackBytes(bits \o Zeros(padding)),
              meta  |-> [tabela |-> tabela,
                         bits_por_char |-> bits_por_char,
                         padding |-> padding,
                         n_caracteres_unicos |-> n_chars]]

(***************************************************************************)
(* Floats in fixed point, and the entropy and redundancy calculators.       *)
(***************************************************************************)
\* the number of values a byte takes
NByteValues == 256

\* entropia_maxima = 8.0 bits per byte
entropia_maxima == 8

\* a / b for numbers a >= 0, b > 0 given exactly: the quotient in fixed point
FxDiv(a, b) == (a * Escala) \div b

\* x * y of two fixed-point numbers
FxMul(x, y) == (x * y) \div Escala

RECURSIVE FracLog(_, _)
\* the fractional bits b..FracBits of log2(m / Escala), Escala <= m < 2*Escala
FracLog(m, b) ==
    IF b > FracBits THEN 0
    ELSE LET q == (m * m) \div Escala
         IN  IF q >= 2 * Escala
             THEN (Escala \div (2 ^ b)) + FracLog(q \div 2, b + 1)
             ELSE FracLog(q, b + 1)

RECURSIVE Log2Fx(_)
\* math.log2(x) of a fixed-point x > 0
Log2Fx(x) ==
    IF x < Escala THEN Log2Fx(2 * x) - Escala
    ELSE IF x >= 2 * Escala THEN Log2Fx(x \div 2) + Escala
    ELSE FracLog(x, 1)

\* Counter(dados): the number of occurrences of each byte value of dados
Counter(dados) ==
    [v \in {dados[i] : i \in 1..Len(dados)} |->
        Cardinality({i \in 1..Len(dados) : dados[i] = v})]

RECURSIVE SomaEntropia(_, _, _, _)
\* the loop of calcular_entropia, over the byte values lo..hi that occur
\* (the sum is split in halves to keep the evaluation shallow)
SomaEntropia(contagem, total, lo, hi) ==
    IF lo = hi
    THEN IF lo \in DOMAIN contagem
         THEN LET p == FxDiv(contagem[lo], total)
              IN  IF p > 0 THEN 0 - FxMul(p, Log2Fx(p)) ELSE 0
         ELSE 0
    ELSE LET mid == (lo + hi) \div 2
         IN  SomaEntropia(contagem, total, lo, mid)
               + SomaEntropia(contagem, total, mid + 1, hi)

\* a faulty entropy: entropia += p * log2(p) in place of -=
calcular_entropia_soma(dados) ==
    IF Len(dados) = 0 THEN 0
    ELSE 0 - SomaEntropia(Counter(dados), Len(dados), 0, NByteValues - 1)

\* calcular_entropia(dados), in fixed point
calcular_entropia(dados) ==
    IF Len(dados) = 0 THEN 0
    ELSE SomaEntropia(Counter(dados), Len(dados), 0, NByteValues - 1)

\* calcular_redundancia(entropia_atual, entropia_maxima), all in fixed point
calcular_redundancia(entropia_atual, maxima) ==
    IF maxima = 0 THEN 0
    ELSE Max(0, Escala - FxDiv(entropia_atual, maxima))

(***************************************************************************)
(* State.                                                                   *)
(***************************************************************************)
VARIABLES
    pc,                 \* position of the running code
    MODO,               \* global MODO after the conditional imports
    BD_DISPONIVEL,      \* global BD_DISPONIVEL after the conditional imports
    leitura,            \* what reading FICHEIRO does: "ok" or the exception
    conteudo,           \* the text FICHEIRO holds
    texto,              \* str: the text being compressed
    recursos_inicio,    \* medir_recursos_sistema() before the encoding, or None
    tempo_inicio,       \* time.perf_counter() before the encoding
    dados_comprimidos,  \* bytes returned by bit_packing_texto
    metadados,          \* dict returned by bit_packing_texto, or None
    tempo_fim,          \* time.perf_counter() after the encoding
    recursos_fim,       \* medir_recursos_sistema() after the encoding, or None
    resultados,         \* the dict executar_teste returns, or None
    conn,               \* the psycopg2 connection: "None", "aberta", "fechada"
    bd,                 \* the committed rows of 'testes' and 'metricas_tecnicas'
    id_teste,           \* what inserir_teste_bd returned: None or [id |-> n]
    sucesso,            \* what gravar_resultados_bd returned
    terminal,           \* the reports mostrar_resultados_terminal printed
    dados,              \* bytes: the argument of calcular_entropia
    entropia            \* float returned by calcular_entropia

varsAmbiente == <<MODO, BD_DISPONIVEL, leitura, conteudo>>
varsPack     == <<texto, dados_comprimidos, metadados>>
varsMedida   == <<recursos_inicio, tempo_inicio, tempo_fim, recursos_fim>>
varsSink     == <<conn, bd, id_teste, sucesso, terminal>>
varsEntropia == <<dados, entropia>>

vars == <<pc, varsAmbiente, varsPack, varsMedida, resultados, varsSink,
          varsEntropia>>

\* Python's None.  A variable not assigned yet holds None when its values
\* are dicts, and otherwise a value of its own kind (0, the empty bytes,
\* False) that nothing reads before the assignment.
None == [None |-> TRUE]

\* nothing measured, no result record, no sink touched
PipelineParado ==
    /\ MODO = "teste"
    /\ BD_DISPONIVEL = FALSE
    /\ leitura = "ok"
    /\ conteudo = <<>>
    /\ recursos_inicio = None
    /\ tempo_inicio = 0
    /\ tempo_fim = 0
    /\ recursos_fim = None
    /\ resultados = None
    /\ conn = "None"
    /\ bd = [testes |-> {}, metricas_tecnicas |-> {}]
    /\ id_teste = None
    /\ sucesso = FALSE
    /\ terminal = <<>>

(***************************************************************************)
(* bit_packing_texto as a pure function: called on any text.                *)
(***************************************************************************)
InitPack ==
    /\ pc = "bit_packing_texto"
    /\ texto \in Textos
    /\ dados_comprimidos = <<>>
    /\ metadados = None
    /\ dados = <<>>
    /\ entropia = 0
    /\ PipelineParado

\* dados_comprimidos, metadados = bit_packing_texto(texto)
ChamarBitPacking ==
    /\ pc = "bit_packing_texto"
    /\ LET r == bit_packing_texto(texto)
       IN  /\ dados_comprimidos' = r.dados
           /\ metadados' = r.meta
    /\ pc' = "retornou"
    /\ UNCHANGED <<texto, varsAmbiente, varsMedida, resultados, varsSink,
                   varsEntropia>>

NextPack == ChamarBitPacking

SpecPack == InitPack /\ [][NextPack]_vars

(***************************************************************************)
(* Properties of bit_packing_texto.                                         *)
(***************************************************************************)
Retornou == pc = "retornou"

\* C1: for every non-empty text the packed bit length len(compressed)*8
\* equals len(text)*bits_por_char + padding, and 0 <= padding <= 7.
C1_ComprimentoEmpacotado ==
    (Retornou /\ texto # <<>>) =>
        /\ Len(dados_comprimidos) * 8
             = Len(texto) * metadados.bits_por_char + metadados.padding
        /\ metadados.padding \in 0..7

\* three characters of two bits each: six bits and two of padding, one byte
C1_Witness ==
    /\ Retornou
    /\ Len(texto) = 3
    /\ metadados.bits_por_char = 2
    /\ metadados.padding = 2
    /\ Len(dados_comprimidos) = 1

\* C2: the code table maps the i-th character in ascending code-point order
\* to the binary representation of i, and every code has the same length
\* bits_por_char = max(1, ceil(log2(n))) for n distinct characters.
C2_TabelaDeCodigos ==
    (Retornou /\ texto # <<>>) =>
        LET n == Cardinality(CharSet(texto))
            b == metadados.bits_por_char
            t == metadados.tabela
        IN  /\ DOMAIN t = CharSet(texto)
            /\ metadados.n_caracteres_unicos = n
            /\ b >= 1
            /\ 2 ^ b >= n
            /\ (b = 1 \/ 2 ^ (b - 1) < n)
            /\ \A c \in DOMAIN t :
                  /\ Len(t[c]) = b
                  /\ \A k \in 1..Len(t[c]) : t[c][k] \in {0, 1}
                  /\ IntBase2(t[c])
                       = Cardinality({d \in CharSet(texto) : d < c})

\* a text with five distinct characters: three-bit codes
C2_Witness ==
    /\ Retornou
    /\ Cardinality(CharSet(texto)) = 5
    /\ metadados.bits_por_char = 3
    /\ metadados.tabela[122] = <<0, 1, 1>>

RECURSIVE UnpackBits(_)
\* the bits of a byte string, each byte most significant bit first
UnpackBits(bs) ==
    IF Len(bs) = 0 THEN <<>>
    ELSE FormatBin(Head(bs), 8) \o UnpackBits(Tail(bs))

\* the decoder the metadata allows: unpack, drop the padding, split into
\* groups of bits_por_char bits, map each group back through the table
\* (-1 where no character has that code)
Descodificar(bs, meta) ==
    LET todos == UnpackBits(bs)
        bits  == SubSeq(todos, 1, Len(todos) - meta.padding)
        b     == meta.bits_por_char
        t     == meta.tabela
    IN  [k \in 1..(Len(bits) \div b) |->
            LET g == SubSeq(bits, b * (k - 1) + 1, b * k)
            IN  IF \E c \in DOMAIN t : t[c] = g
                THEN CHOOSE c \in DOMAIN t : t[c] = g
                ELSE -1]

\* C3: the encoding is reversible from its outputs alone: the table is
\* injective, and decoding the compressed bytes with the metadata yields
\* the original text.
C3_Reversivel ==
    (Retornou /\ texto # <<>>) =>
        /\ \A c, d \in DOMAIN metadados.tabela :
              metadados.tabela[c] = metadados.tabela[d] => c = d
        /\ Descodificar(dados_comprimidos, metadados) = texto

\* a text of two bytes with padding, decoded back
C3_Witness ==
    /\ Retornou
    /\ Len(texto) = 5
    /\ Len(dados_comprimidos) = 2
    /\ metadados.padding > 0
    /\ Cardinality(CharSet(texto)) = 3
    /\ Descodificar(dados_comprimidos, metadados) = texto

\* C4: encoding the empty text returns empty bytes and metadata with the
\* four fields of the non-empty case: an empty table, bits_por_char = 0,
\* padding = 0 and a distinct-character count of 0.
C4_TextoVazio ==
    (Retornou /\ texto = <<>>) =>
        /\ dados_comprimidos = <<>>
        /\ DOMAIN metadados
             = {"tabela", "bits_por_char", "padding", "n_caracteres_unicos"}
        /\ DOMAIN metadados.tabela = {}
        /\ metadados.bits_por_char = 0
        /\ metadados.padding = 0
        /\ metadados.n_caracteres_unicos = 0

(***************************************************************************)
(* calcular_entropia as a pure function: called on any byte string.         *)
(***************************************************************************)
InitEntropia ==
    /\ pc = "calcular_entropia"
    /\ dados \in ByteStrings
    /\ entropia = 0
    /\ texto = <<>>
    /\ dados_comprimidos = <<>>
    /\ metadados = None
    /\ PipelineParado

\* entropia = calcular_entropia(dados)
ChamarEntropia ==
    /\ pc = "calcular_entropia"
    /\ entropia' = calcular_entropia(dados)
    /\ pc' = "retornou"
    /\ UNCHANGED <<dados, varsAmbiente, varsPack, varsMedida, resultados,
                   varsSink>>

NextEntropia == ChamarEntropia

SpecEntropia == InitEntropia /\ [][NextEntropia]_vars

\* C5: for every byte sequence d, calcular_entropia(d) lies in [0, 8], and
\* calcular_entropia of the empty byte sequence is exactly 0.0.
C5_EntropiaLimitada ==
    Retornou =>
        /\ entropia >= 0
        /\ entropia <= entropia_maxima * Escala
        /\ (dados = <<>> => entropia = 0)

\* all 256 byte values in uniform frequency: the entropy reaches 8 bits
C5_Witness ==
    /\ Retornou
    /\ Len(dados) = 2 * NByteValues
    /\ Cardinality({dados[i] : i \in 1..Len(dados)}) = NByteValues
    /\ entropia = entropia_maxima * Escala

(***************************************************************************)
(* The test run: configuration, environment and executar_teste.             *)
(***************************************************************************)
\* longest text the file FICHEIRO holds
MaxLenFicheiro == 2

FICHEIRO == "texto_teste_1.txt"
ALGORITMO == "bit_packing"
VERSAO_SCRIPT == "v1"
ORIGEM == "local"
COMENTARIO_PREVIO == "Teste de compressão estrutural com bit packing"

\* the texts FICHEIRO may hold
TextosFicheiro == UNION {[1..n -> {97, 98, 233}] : n \in 0..MaxLenFicheiro}

\* the readings of time.perf_counter() and of the process CPU time, in
\* fixed-point seconds
Tempos == 0..1

\* what medir_recursos_sistema() may return
Instantaneos ==
    [cpu_user : Tempos, cpu_system : {0},
     memoria_rss : {4096, 8192}, memoria_vms : {16384}]

\* the readings of datetime.now()
Instantes == {1, 2}

\* the conditional imports: the globals MODO and BD_DISPONIVEL, given MODO
\* of config.py and whether psycopg2 can be imported
ImportacoesCondicionais(modo_config, psycopg2_instalado) ==
    IF modo_config = "bd"
    THEN IF psycopg2_instalado
         THEN [MODO |-> "bd", BD_DISPONIVEL |-> TRUE]
         ELSE [MODO |-> "teste", BD_DISPONIVEL |-> FALSE]
    ELSE [MODO |-> modo_config, BD_DISPONIVEL |-> FALSE]

\* the UTF-8 encoding of one code point
Utf8Char(c) ==
    IF c < 128 THEN <<c>>
    ELSE IF c < 2048 THEN <<192 + (c \div 64), 128 + (c % 64)>>
    ELSE IF c < 65536
         THEN <<224 + (c \div 4096), 128 + ((c \div 64) % 64), 128 + (c % 64)>>
         ELSE <<240 + (c \div 262144), 128 + ((c \div 4096) % 64),
                128 + ((c \div 64) % 64), 128 + (c % 64)>>

RECURSIVE Utf8(_)
\* texto.encode("utf-8")
Utf8(t) == IF Len(t) = 0 THEN <<>> ELSE Utf8Char(Head(t)) \o Utf8(Tail(t))

Init ==
    /\ pc = "executar_teste"
    /\ \E modo_config \in {"teste", "bd"}, psycopg2_instalado \in BOOLEAN :
          LET g == ImportacoesCondicionais(modo_config, psycopg2_instalado)
          IN  /\ MODO = g.MODO
              /\ BD_DISPONIVEL = g.BD_DISPONIVEL
    /\ leitura \in {"ok", "FileNotFoundError", "Exception"}
    /\ conteudo \in TextosFicheiro
    /\ leitura # "ok" => conteudo = <<>>
    /\ texto = <<>>
    /\ recursos_inicio = None
    /\ tempo_inicio = 0
    /\ dados_comprimidos = <<>>
    /\ metadados = None
    /\ tempo_fim = 0
    /\ recursos_fim = None
    /\ resultados = None
    /\ conn = "None"
    /\ bd = [testes |-> {}, metricas_tecnicas |-> {}]
    /\ id_teste = None
    /\ sucesso = FALSE
    /\ terminal = <<>>
    /\ dados = <<>>
    /\ entropia = 0

\* a faulty reading of the file: the test "if not texto" left out
LerFicheiroSemTesteVazio ==
    /\ pc = "executar_teste"
    /\ IF leitura # "ok"
       THEN pc' = "main" /\ UNCHANGED texto
       ELSE texto' = conteudo /\ pc' = "medir_inicio"
    /\ UNCHANGED <<varsAmbiente, dados_comprimidos, metadados, varsMedida,
                   resultados, varsSink, varsEntropia>>

\* executar_teste, the reading of the file: a missing or unreadable file
\* and an empty text return None to main
LerFicheiro ==
    /\ pc = "executar_teste"
    /\ IF leitura # "ok"
       THEN pc' = "main" /\ UNCHANGED texto
       ELSE /\ texto' = conteudo
            /\ pc' = IF Len(conteudo) = 0 THEN "main" ELSE "medir_inicio"
    /\ UNCHANGED <<varsAmbiente, dados_comprimidos, metadados, varsMedida,
                   resultados, varsSink, varsEntropia>>

\* recursos_inicio = medir_recursos_sistema(); tempo_inicio = perf_counter()
MedirInicio ==
    /\ pc = "medir_inicio"
    /\ recursos_inicio' \in Instantaneos
    /\ tempo_inicio' \in Tempos
    /\ pc' = "comprimir"
    /\ UNCHANGED <<varsAmbiente, varsPack, tempo_fim, recursos_fim,
                   resultados, varsSink, varsEntropia>>

\* dados_comprimidos, metadados = bit_packing_texto(texto)
Comprimir ==
    /\ pc = "comprimir"
    /\ LET r == bit_packing_texto(texto)
       IN  /\ dados_comprimidos' = r.dados
           /\ metadados' = r.meta
    /\ pc' = "medir_fim"
    /\ UNCHANGED <<varsAmbiente, texto, varsMedida, resultados, varsSink,
                   varsEntropia>>

\* tempo_fim = perf_counter(); recursos_fim = medir_recursos_sistema():
\* the clock is monotonic and the CPU time of a process never decreases
MedirFim ==
    /\ pc = "medir_fim"
    /\ tempo_fim' \in {t \in Tempos : t >= tempo_inicio}
    /\ recursos_fim' \in
          {r \in Instantaneos : r.cpu_user >= recursos_inicio.cpu_user}
    /\ pc' = "metricas"
    /\ UNCHANGED <<varsAmbiente, varsPack, recursos_inicio, tempo_inicio,
                   resultados, varsSink, varsEntropia>>

\* the dict executar_teste assembles from its measurements
Resultados(txt, comprimidos, meta, r_ini, t_ini, t_fim, r_fim, agora) ==
    LET dados_originais   == Utf8(txt)
        tamanho_original  == Len(dados_originais)
        tamanho_final     == Len(comprimidos)
        taxa_compressao   == IF tamanho_original > 0
                             THEN FxDiv(tamanho_final, tamanho_original)
                             ELSE 0
        tempo_execucao    == (t_fim - t_ini) * 1000
        entropia_inicial  == calcular_entropia(dados_originais)
        entropia_final    == calcular_entropia(comprimidos)
        maxima            == entropia_maxima * Escala
        variacao_entropia == entropia_final - entropia_inicial
        variacao_entropia_relativa ==
            IF entropia_inicial > 0
            THEN FxDiv(variacao_entropia, entropia_inicial)
            ELSE 0
    IN  [ficheiro          |-> FICHEIRO,
         algoritmo         |-> ALGORITMO,
         versao_script     |-> VERSAO_SCRIPT,
         origem            |-> ORIGEM,
         comentario_previo |-> COMENTARIO_PREVIO,
         timestamp         |-> [isoformat |-> agora],
         tamanho_original  |-> tamanho_original,
         tamanho_final     |-> tamanho_final,
         taxa_compressao   |-> taxa_compressao,
         ganho_compressao  |-> Escala - taxa_compressao,
         entropia_inicial  |-> entropia_inicial,
         entropia_final    |-> entropia_final,
         variacao_entropia |-> variacao_entropia,
         variacao_entropia_relativa |-> variacao_entropia_relativa,
         redundancia_inicial |-> calcular_redundancia(entropia_inicial, maxima),
         redundancia_final |-> calcular_redundancia(entropia_final, maxima),
         tempo_execucao_ms |-> tempo_execucao,
         cpu_utilizado     |-> (r_fim.cpu_user - r_ini.cpu_user) * 100,
         memoria_utilizada |-> r_fim.memoria_rss - r_ini.memoria_rss,
         bits_por_caracter |-> meta.bits_por_char,
         padding_bits      |-> meta.padding,
         caracteres_unicos |-> meta.n_caracteres_unicos,
         perdas_detectadas |-> FALSE,
         nivel_ruido       |-> variacao_entropia_relativa]

\* executar_teste, the metrics: the result record is built and returned
CalcularMetricas ==
    /\ pc = "metricas"
    /\ \E agora \in Instantes :
          resultados' = Resultados(texto, dados_comprimidos, metadados,
                                   recursos_inicio, tempo_inicio, tempo_fim,
                                   recursos_fim, agora)
    /\ pc' = "main"
    /\ UNCHANGED <<varsAmbiente, varsPack, varsMedida, varsSink, varsEntropia>>

(***************************************************************************)
(* The sinks: the database and the terminal.                                *)
(***************************************************************************)
\* os.path.splitext(FICHEIRO)[1].lower()
EXTENSAO == ".txt"

\* tipo_map.get(ext, "outro")
TipoFicheiro(ext) ==
    CASE ext = ".txt" -> "texto"
      [] ext \in {".png", ".jpg"} -> "imagem"
      [] ext = ".wav" -> "audio"
      [] ext = ".bin" -> "binario"
      [] OTHER -> "outro"

\* the id the INSERT ... RETURNING id of 'testes' generates
NovoId(testes) == Cardinality(testes) + 1

\* the row inserir_teste_bd inserts in 'testes'
LinhaTeste(id, r, agora) ==
    [id                |-> id,
     tipo_ficheiro     |-> TipoFicheiro(EXTENSAO),
     nome_ficheiro     |-> r.ficheiro,
     tamanho_original  |-> r.tamanho_original,
     algoritmo         |-> r.algoritmo,
     versao_script     |-> r.versao_script,
     origem            |-> r.origem,
     data_execucao     |-> agora,
     comentario_previo |-> r.comentario_previo]

\* the row inserir_metricas_bd inserts in 'metricas_tecnicas'
LinhaMetricas(id, r) ==
    [id_teste              |-> id,
     tamanho_final         |-> r.tamanho_final,
     taxa_compressao       |-> r.taxa_compressao,
     tempo_execucao        |-> r.tempo_execucao_ms,
     entropia_inicial      |-> r.entropia_inicial,
     entropia_final        |-> r.entropia_final,
     perdas_detectadas     |-> r.perdas_detectadas,
     nivel_ruido           |-> r.nivel_ruido,
     redundancia_detectada |-> r.redundancia_inicial,
     cpu_utilizacao        |-> r.cpu_utilizado,
     memoria_utilizada     |-> r.memoria_utilizada]

\* f"{x:.{casas}f}": a fixed-point x rounded to the nearest multiple of
\* 10^-casas, as the count of such units
Formatar(x, casas) == (2 * x * (10 ^ casas) + Escala) \div (2 * Escala)

\* what mostrar_resultados_terminal prints of a result record: each value
\* printed, under the key it is read from
Relatorio(r) ==
    [algoritmo         |-> r.algoritmo,
     ficheiro          |-> r.ficheiro,
     tamanho_original  |-> r.tamanho_original,
     tamanho_final     |-> r.tamanho_final,
     taxa_compressao   |-> Formatar(r.taxa_compressao, 4),
     ganho_compressao  |-> Formatar(r.ganho_compressao * 100, 2),
     entropia_inicial  |-> Formatar(r.entropia_inicial, 4),
     entropia_final    |-> Formatar(r.entropia_final, 4),
     variacao_entropia |-> Formatar(r.variacao_entropia, 4),
     variacao_entropia_relativa
                       |-> Formatar(r.variacao_entropia_relativa * 100, 2),
     redundancia_inicial |-> Formatar(r.redundancia_inicial, 4),
     redundancia_final |-> Formatar(r.redundancia_final, 4),
     tempo_execucao_ms |-> Formatar(r.tempo_execucao_ms, 2),
     cpu_utilizado     |-> Formatar(r.cpu_utilizado, 2),
     memoria_utilizada |-> r.memoria_utilizada]

\* main, after executar_teste returned: no record ends the run; otherwise
\* the record goes to the database (MODO "bd") or to the terminal
Main ==
    /\ pc = "main"
    /\ pc' = IF resultados = None THEN "fim"
             ELSE IF MODO = "bd" THEN "gravar" ELSE "mostrar"
    /\ UNCHANGED <<varsAmbiente, varsPack, varsMedida, resultados, varsSink,
                   varsEntropia>>

\* gravar_resultados_bd up to conn = conectar_bd(): without the driver, or
\* when the connection fails, it returns False
Conectar ==
    /\ pc = "gravar"
    /\ IF ~BD_DISPONIVEL
       THEN /\ sucesso' = FALSE
            /\ pc' = "gravou"
            /\ UNCHANGED conn
       ELSE \E ligou \in BOOLEAN :
               IF ligou
               THEN /\ conn' = "aberta"
                    /\ pc' = "inserir_teste"
                    /\ UNCHANGED sucesso
               ELSE /\ sucesso' = FALSE
                    /\ pc' = "gravou"
                    /\ UNCHANGED conn
    /\ UNCHANGED <<varsAmbiente, varsPack, varsMedida, resultados, bd,
                   id_teste, terminal, varsEntropia>>

\* id_teste = inserir_teste_bd(conn, resultados), and the test of id_teste
\* in gravar_resultados_bd.  The insert or the commit may raise; the handler
\* rolls back and returns None, and gravar_resultados_bd closes and returns
\* False; a rollback that raises leaves the handler as an exception nothing
\* catches.
InserirTeste ==
    /\ pc = "inserir_teste"
    /\ \E falha \in {"nenhuma", "execute", "commit"},
          rollback_falha \in BOOLEAN :
          IF falha = "nenhuma"
          THEN \E agora \in Instantes :
                 LET id == NovoId(bd.testes)
                 IN  /\ bd' = [bd EXCEPT !.testes =
                                  @ \cup {LinhaTeste(id, resultados, agora)}]
                     /\ id_teste' = [id |-> id]
                     /\ IF id = 0
                        THEN conn' = "fechada" /\ sucesso' = FALSE
                               /\ pc' = "gravou"
                        ELSE pc' = "inserir_metricas"
                               /\ UNCHANGED <<conn, sucesso>>
          ELSE IF rollback_falha
               THEN /\ pc' = "excecao"
                    /\ UNCHANGED <<bd, id_teste, conn, sucesso>>
               ELSE /\ id_teste' = None
                    /\ conn' = "fechada"
                    /\ sucesso' = FALSE
                    /\ pc' = "gravou"
                    /\ UNCHANGED bd
    /\ UNCHANGED <<varsAmbiente, varsPack, varsMedida, resultados, terminal,
                   varsEntropia>>

\* inserir_metricas_bd(conn, id_teste, resultados), and the rest of
\* gravar_resultados_bd: True once the metrics are committed, False (after
\* a rollback) when the insert or the commit raises
InserirMetricas ==
    /\ pc = "inserir_metricas"
    /\ \E falha \in {"nenhuma", "execute", "commit"},
          rollback_falha \in BOOLEAN :
          IF falha = "nenhuma"
          THEN /\ bd' = [bd EXCEPT !.metricas_tecnicas =
                            @ \cup {LinhaMetricas(id_teste.id, resultados)}]
               /\ conn' = "fechada"
               /\ sucesso' = TRUE
               /\ pc' = "gravou"
          ELSE IF rollback_falha
               THEN /\ pc' = "excecao"
                    /\ UNCHANGED <<bd, conn, sucesso>>
               ELSE /\ conn' = "fechada"
                    /\ sucesso' = FALSE
                    /\ pc' = "gravou"
                    /\ UNCHANGED bd
    /\ UNCHANGED <<varsAmbiente, varsPack, varsMedida, resultados, id_teste,
                   terminal, varsEntropia>>

\* main, after gravar_resultados_bd returned: the fallback to the terminal
MainAposGravar ==
    /\ pc = "gravou"
    /\ pc' = IF ~sucesso THEN "mostrar" ELSE "fim"
    /\ UNCHANGED <<varsAmbiente, varsPack, varsMedida, resultados, varsSink,
                   varsEntropia>>

\* mostrar_resultados_terminal(resultados), and the end of main
Mostrar ==
    /\ pc = "mostrar"
    /\ terminal' = Append(terminal, Relatorio(resultados))
    /\ pc' = "fim"
    /\ UNCHANGED <<varsAmbiente, varsPack, varsMedida, resultados, conn, bd,
                   id_teste, sucesso, varsEntropia>>

Next ==
    \/ LerFicheiro
    \/ MedirInicio
    \/ Comprimir
    \/ MedirFim
    \/ CalcularMetricas
    \/ Main
    \/ Conectar
    \/ InserirTeste
    \/ InserirMetricas
    \/ MainAposGravar
    \/ Mostrar

Spec == Init /\ [][Next]_vars

(***************************************************************************)
(* Properties of the run.                                                   *)
(***************************************************************************)
\* the text cannot be read, or is read and is empty
EntradaIndisponivel == leitura # "ok" \/ conteudo = <<>>

\* main is over: it returned, or an exception left it
Terminou == pc \in {"fim", "excecao"}

\* control has left gravar_resultados_bd, by a return or by an exception
SaiuDeGravar ==
    \/ pc \in {"gravou", "excecao"}
    \/ pc \in {"mostrar", "fim"} /\ MODO = "bd" /\ resultados # None

\* gravar_resultados_bd returned (sucesso holds its value)
GravarRetornou ==
    \/ pc = "gravou"
    \/ pc \in {"mostrar", "fim"} /\ MODO = "bd" /\ resultados # None

\* C6: when the input text cannot be read or is read but empty,
\* executar_teste aborts before any computation: no resource snapshot is
\* taken, the encoder is not invoked, no result record is built, main writes
\* nothing to the database and prints no report, and the run goes straight
\* to its end.
C6_AbortaAntesDeComputar ==
    EntradaIndisponivel =>
        /\ pc \in {"executar_teste", "main", "fim"}
        /\ recursos_inicio = None
        /\ recursos_fim = None
        /\ metadados = None
        /\ resultados = None
        /\ conn = "None"
        /\ bd = [testes |-> {}, metricas_tecnicas |-> {}]
        /\ terminal = <<>>

\* an empty file, read without fault in mode "bd": the run is over
C6_Witness ==
    /\ pc = "fim"
    /\ leitura = "ok"
    /\ conteudo = <<>>
    /\ MODO = "bd"

\* C7: computed metrics are never lost: when executar_teste produced a
\* record, main ends with that unchanged record either stored by the
\* database sink (gravar_resultados_bd returned True) or shown by
\* mostrar_resultados_terminal.
C7_MetricasNuncaPerdidas ==
    (Terminou /\ resultados # None) =>
        \/ /\ pc = "fim"
           /\ MODO = "bd"
           /\ sucesso = TRUE
           /\ \E t \in bd.testes :
                 LinhaMetricas(t.id, resultados) \in bd.metricas_tecnicas
        \/ terminal = <<Relatorio(resultados)>>

\* C8: the connection is released on every exit path: once control has
\* left gravar_resultados_bd, a connection conectar_bd opened is closed.
C8_ConexaoLibertada ==
    SaiuDeGravar => conn # "aberta"

\* the metric fields of the result record
CamposMetricas ==
    {"tamanho_original", "tamanho_final", "taxa_compressao",
     "ganho_compressao", "entropia_inicial", "entropia_final",
     "variacao_entropia", "variacao_entropia_relativa",
     "redundancia_inicial", "redundancia_final", "tempo_execucao_ms",
     "cpu_utilizado", "memoria_utilizada", "bits_por_caracter",
     "padding_bits", "caracteres_unicos", "perdas_detectadas", "nivel_ruido"}

\* C9: every sink preserves every field of the result record: each metric
\* field is written under the same name, with the same value, by the
\* database inserts, and each is rendered by mostrar_resultados_terminal.
C9_CamposPreservados ==
    (pc = "fim" /\ resultados # None) =>
        /\ terminal # <<>> =>
              \A f \in CamposMetricas : f \in DOMAIN terminal[1]
        /\ (MODO = "bd" /\ sucesso = TRUE) =>
              \E t \in bd.testes, m \in bd.metricas_tecnicas :
                 \A f \in CamposMetricas :
                    \/ f \in DOMAIN t /\ t[f] = resultados[f]
                    \/ f \in DOMAIN m /\ m[f] = resultados[f]

\* C10: persisting is all-or-nothing: when gravar_resultados_bd has
\* returned, the database holds both the row of 'testes' and its row of
\* 'metricas_tecnicas' (True was returned) or neither (False was returned).
C10_TudoOuNada ==
    GravarRetornou =>
        \/ /\ sucesso = TRUE
           /\ \E t \in bd.testes :
                 \E m \in bd.metricas_tecnicas : m.id_teste = t.id
        \/ /\ sucesso = FALSE
           /\ bd.testes = {}
           /\ bd.metricas_tecnicas = {}

=============================================================================
